---- MODULE Spec2Model ----
(***************************************************************************)
(* GrafoEnron (src/grafo_enron.py): a directed, weighted graph of e-mail   *)
(* contacts and the analyses run on it.                                    *)
(*                                                                         *)
(* Addresses are modelled as integers: Python compares the (dist, address) *)
(* tuples of the priority queue lexicographically, and integers keep that  *)
(* total order.  A Python dict is a sequence of <<key, value>> pairs in    *)
(* insertion order (the order a dict iterates in).  The outer dict         *)
(* self.grafo is a function whose DOMAIN is its key set: its iteration     *)
(* order only feeds sums, counts, a sort and the visited sets of a BFS,    *)
(* none of which depends on it, so loops over it run in ascending key      *)
(* order.  The iteration order of the set self.vertices is arbitrary in    *)
(* Python and is a nondeterministic permutation here.                      *)
(***************************************************************************)
EXTENDS Integers, Sequences, FiniteSets, TLC

\* Distinct addresses in the e-mails, and e-mails ingested (one
\* _adicionar_aresta call each), where the store and its counts are checked.
NumEnderecos == 3

MaxChamadas == 4

\* The same, where the Eulerian test is checked: two disjoint cycles need
\* four addresses.
NumEnderecosEuleriano == 4

MaxChamadasEuleriano == 4

\* The same, where the searches are checked: an entry of the queue goes stale
\* once an edge of weight 3 is beaten by a path of two edges.
NumEnderecosBusca == 3

MaxChamadasBusca == 5

\* Largest distancia_max a query passes to vertices_ate_distancia.
MaxDistancia == 3

\* The slice [:20] of top_20_grau_saida and top_20_grau_entrada.
TopK == 20

\* distancia_max of a query; a negative bound admits no vertex.
Distancias == (0 - 1)..MaxDistancia

VARIABLES
    grafo,        \* self.grafo: address -> dict of (address, weight)
    vertices,     \* self.vertices
    chamadas,     \* history: _adicionar_aresta(de, para) calls made, de # para
    descartadas,  \* history: _adicionar_aresta(v, v) calls made
    resultado,    \* the value the last analysis returned, until it is printed
    busca         \* the local variables of a search whose loop is running

vars == <<grafo, vertices, chamadas, descartadas, resultado, busca>>

Ocioso == resultado.op = "nenhuma" /\ busca.tipo = "ociosa"

----------------------------------------------------------------------------
(* Python containers *)

RECURSIVE SomaSeq(_)
SomaSeq(s) == IF s = <<>> THEN 0 ELSE Head(s) + SomaSeq(Tail(s))

RECURSIVE SomaConj(_)
SomaConj(S) ==
    IF S = {} THEN 0
    ELSE LET x == CHOOSE y \in S : TRUE IN x[1] + SomaConj(S \ {x})

Minimo(a, b) == IF a <= b THEN a ELSE b

\* All orders a Python set may iterate in.
RECURSIVE Ordens(_)
Ordens(S) ==
    IF S = {} THEN {<<>>}
    ELSE UNION {{<<x>> \o s : s \in Ordens(S \ {x})} : x \in S}

\* The elements of a set of integers in ascending order.
RECURSIVE EmOrdem(_)
EmOrdem(S) ==
    IF S = {} THEN <<>>
    ELSE LET m == CHOOSE x \in S : \A y \in S : x <= y
         IN <<m>> \o EmOrdem(S \ {m})

DictChaves(d) == [i \in 1..Len(d) |-> d[i][1]]

DictValores(d) == [i \in 1..Len(d) |-> d[i][2]]

DictTem(d, k) == \E i \in 1..Len(d) : d[i][1] = k

DictValor(d, k) == d[CHOOSE i \in 1..Len(d) : d[i][1] = k][2]

\* d[k] = v: an existing key keeps its place, a new key goes last.
DictPor(d, k, v) ==
    IF DictTem(d, k)
    THEN [i \in 1..Len(d) |-> IF d[i][1] = k THEN <<k, v>> ELSE d[i]]
    ELSE Append(d, <<k, v>>)

\* self.grafo[k] on the defaultdict(dict): reading an absent key creates it.
GrafoAposItem(g, k) == IF k \in DOMAIN g THEN g ELSE g @@ (k :> <<>>)

RECURSIVE GrafoAposItens(_, _)
GrafoAposItens(g, s) ==
    IF s = <<>> THEN g ELSE GrafoAposItens(GrafoAposItem(g, Head(s)), Tail(s))

\* Mutant: self.grafo[k] written where self.grafo.get(k, {}) stands.
GrafoAposGetCriaChave(g, k) == GrafoAposItem(g, k)

\* self.grafo.get(k, {}): the dict after the call; an absent key stays absent.
GrafoAposGet(g, k) == g

\* self.grafo after one .get per key of s.
RECURSIVE GrafoAposGets(_, _)
GrafoAposGets(g, s) ==
    IF s = <<>> THEN g ELSE GrafoAposGets(GrafoAposGet(g, Head(s)), Tail(s))

\* The value of self.grafo.get(k, {}).
Vizinhos(g, k) == IF k \in DOMAIN g THEN g[k] ELSE <<>>

----------------------------------------------------------------------------
(* _adicionar_aresta *)

\* Mutant: "= 1" where "+= 1" stands, so a repeated pair keeps weight 1.
AdicionarArestaGrafoSemIncremento(g, de, para) ==
    LET g1 == GrafoAposItem(g, de)
        g2 == [g1 EXCEPT ![de] = DictPor(g1[de], para, 1)]
    IN IF para \notin DOMAIN g2 THEN g2 @@ (para :> <<>>) ELSE g2

AdicionarArestaGrafo(g, de, para) ==
    LET g1 == GrafoAposItem(g, de)
        g2 == [g1 EXCEPT ![de] =
                  IF DictTem(g1[de], para)
                  THEN DictPor(g1[de], para, DictValor(g1[de], para) + 1)
                  ELSE DictPor(g1[de], para, 1)]
    IN IF para \notin DOMAIN g2 THEN g2 @@ (para :> <<>>) ELSE g2

TotalChamadas == SomaConj({<<chamadas[p], p>> : p \in DOMAIN chamadas})

\* `limite` bounds the calls made; it stands for the size of the corpus.
AdicionarAresta(de, para, limite) ==
    /\ Ocioso
    /\ TotalChamadas + descartadas < limite
    /\ IF para = de
       THEN /\ descartadas' = descartadas + 1
            /\ UNCHANGED <<grafo, vertices, chamadas>>
       ELSE /\ vertices' = vertices \cup {de, para}
            /\ grafo' = AdicionarArestaGrafo(grafo, de, para)
            /\ chamadas' = [chamadas EXCEPT ![<<de, para>>] = @ + 1]
            /\ UNCHANGED descartadas
    /\ UNCHANGED <<resultado, busca>>

\* The driver prints each value returned before it makes the next call.
Imprimir ==
    /\ resultado.op # "nenhuma"
    /\ resultado' = [op |-> "nenhuma"]
    /\ UNCHANGED <<grafo, vertices, chamadas, descartadas, busca>>

----------------------------------------------------------------------------
(* numero_de_vertices, numero_de_arestas, vertices_isolados, top_20_* *)

NumeroDeVerticesDe(vs) == Cardinality(vs)

NumeroDeArestasDe(g) == SomaConj({<<Len(g[k]), k>> : k \in DOMAIN g})

\* grau_entrada of vertices_isolados: the number of edges that end at v.
ArestasDeEntrada(g, v) == Cardinality({k \in DOMAIN g : DictTem(g[k], v)})

\* Mutant: "or" where "and" stands.
VerticesIsoladosOu(g, vs) ==
    Cardinality({v \in vs : Len(Vizinhos(g, v)) = 0 \/ ArestasDeEntrada(g, v) = 0})

VerticesIsoladosDe(g, vs) ==
    Cardinality({v \in vs : Len(Vizinhos(g, v)) = 0 /\ ArestasDeEntrada(g, v) = 0})

\* sorted(xs, reverse=True) of a set of <<grau, v>> pairs.
RECURSIVE OrdenadoDecrescente(_)
OrdenadoDecrescente(S) ==
    IF S = {} THEN <<>>
    ELSE LET m == CHOOSE x \in S : \A y \in S :
                      \/ x[1] > y[1]
                      \/ x[1] = y[1] /\ x[2] >= y[2]
         IN <<m>> \o OrdenadoDecrescente(S \ {m})

Primeiros(s, k) == SubSeq(s, 1, Minimo(Len(s), k))

\* Mutant: len(self.grafo[v]) where sum(self.grafo[v].values()) stands.
GrausSaidaPorContagem(g) == {<<Len(g[v]), v>> : v \in DOMAIN g}

\* graus of top_20_grau_saida: (sum of the weights leaving v, v) per key v.
GrausSaida(g) == {<<SomaSeq(DictValores(g[v])), v>> : v \in DOMAIN g}

Top20GrauSaidaDe(g) == Primeiros(OrdenadoDecrescente(GrausSaida(g)), TopK)

Destinos(g) == UNION {{g[k][i][1] : i \in 1..Len(g[k])} : k \in DOMAIN g}

\* The sum of the weights of the edges that end at v (0 when there is none).
PesoDeEntrada(g, v) ==
    SomaConj({<<DictValor(g[k], v), k>> : k \in {x \in DOMAIN g : DictTem(g[x], v)}})

\* graus of top_20_grau_entrada: only destinations get an entry.
GrausEntrada(g) == {<<PesoDeEntrada(g, v), v>> : v \in Destinos(g)}

Top20GrauEntradaDe(g) == Primeiros(OrdenadoDecrescente(GrausEntrada(g)), TopK)

NumeroDeVertices ==
    /\ Ocioso
    /\ resultado' = [op |-> "numero_de_vertices", val |-> NumeroDeVerticesDe(vertices)]
    /\ UNCHANGED <<grafo, vertices, chamadas, descartadas, busca>>

NumeroDeArestas ==
    /\ Ocioso
    /\ resultado' = [op |-> "numero_de_arestas", val |-> NumeroDeArestasDe(grafo)]
    /\ UNCHANGED <<grafo, vertices, chamadas, descartadas, busca>>

VerticesIsolados ==
    /\ Ocioso
    /\ resultado' = [op |-> "vertices_isolados", val |-> VerticesIsoladosDe(grafo, vertices)]
    /\ grafo' = GrafoAposGets(GrafoAposItens(grafo, EmOrdem(DOMAIN grafo)), EmOrdem(vertices))
    /\ UNCHANGED <<vertices, chamadas, descartadas, busca>>

Top20GrauSaida ==
    /\ Ocioso
    /\ resultado' = [op |-> "top_20_grau_saida", val |-> Top20GrauSaidaDe(grafo)]
    /\ grafo' = GrafoAposItens(grafo, EmOrdem(DOMAIN grafo))
    /\ UNCHANGED <<vertices, chamadas, descartadas, busca>>

Top20GrauEntrada ==
    /\ Ocioso
    /\ resultado' = [op |-> "top_20_grau_entrada", val |-> Top20GrauEntradaDe(grafo)]
    /\ grafo' = GrafoAposItens(grafo, EmOrdem(DOMAIN grafo))
    /\ UNCHANGED <<vertices, chamadas, descartadas, busca>>

----------------------------------------------------------------------------
(* _eh_fortemente_conexo, grafo_euleriano *)

\* bfs(grafo, inicio): the set visitados once fila is empty.
RECURSIVE Bfs(_, _, _)
Bfs(g, visitados, fila) ==
    IF fila = <<>> THEN visitados
    ELSE LET atual == Head(fila)
         IN IF atual \notin visitados
            THEN Bfs(g, visitados \cup {atual},
                     Tail(fila) \o DictChaves(Vizinhos(g, atual)))
            ELSE Bfs(g, visitados, Tail(fila))

\* reverso[v][u] = self.grafo[u][v] for every edge (u, v).
RECURSIVE ReversoDe(_, _)
ReversoDe(g, us) ==
    IF us = <<>> THEN [v \in Destinos(g) |-> <<>>]
    ELSE LET u == us[Len(us)]
             r == ReversoDe(g, SubSeq(us, 1, Len(us) - 1))
         IN [v \in DOMAIN r |->
                IF DictTem(g[u], v) THEN DictPor(r[v], u, DictValor(g[u], v)) ELSE r[v]]

Reverso(g) == ReversoDe(g, EmOrdem(DOMAIN g))

EhFortementeConexoDe(g, vs, v0) ==
    IF vs = {} THEN TRUE
    ELSE /\ Bfs(g, {}, <<v0>>) = vs
         /\ Bfs(Reverso(g), {}, <<v0>>) = vs

\* self.grafo after the call: bfs reads it with .get, one per visited vertex,
\* and the loop that builds reverso reads self.grafo[u] for each key u.
GrafoAposConexo(g, vs, v0) ==
    IF vs = {} THEN g
    ELSE GrafoAposItens(GrafoAposGets(g, EmOrdem(Bfs(g, {}, <<v0>>))), EmOrdem(DOMAIN g))

\* v0 = next(iter(self.vertices)): the first vertex the set iterates over
\* (not read when the set is empty).
PrimeiroDe(ordem) == IF ordem = <<>> THEN 0 ELSE ordem[1]

SaidaEuleriano(g, v) == IF v \in DOMAIN g THEN SomaSeq(DictValores(g[v])) ELSE 0

\* inconsistencias, in the order the loop over self.vertices visits them.
RECURSIVE Inconsistencias(_, _)
Inconsistencias(g, ordem) ==
    IF ordem = <<>> THEN <<>>
    ELSE LET v == Head(ordem)
             saida == SaidaEuleriano(g, v)
             entrada == PesoDeEntrada(g, v)
         IN (IF entrada # saida
             THEN <<[tipo |-> "vertice", v |-> v, entrada |-> entrada, saida |-> saida]>>
             ELSE <<>>) \o Inconsistencias(g, Tail(ordem))

\* Mutant: the verdict rests on the degrees alone.
ProblemasSoGraus(g, vs, ordem, v0) ==
    LET inc == Inconsistencias(g, ordem)
    IN IF inc # <<>>
       THEN <<[tipo |-> "graus", v |-> 0, entrada |-> 0, saida |-> 0]>> \o inc
       ELSE <<>>

Problemas(g, vs, ordem, v0) ==
    LET inc == Inconsistencias(g, ordem)
    IN (IF inc # <<>>
        THEN <<[tipo |-> "graus", v |-> 0, entrada |-> 0, saida |-> 0]>> \o inc
        ELSE <<>>)
       \o (IF ~EhFortementeConexoDe(g, vs, v0)
           THEN <<[tipo |-> "nao_conexo", v |-> 0, entrada |-> 0, saida |-> 0]>>
           ELSE <<>>)

GrafoEulerianoDe(g, vs, ordem, v0) ==
    LET problemas == Problemas(g, vs, ordem, v0)
    IN [euleriano |-> Len(problemas) = 0, motivos |-> problemas]

EhFortementeConexo ==
    /\ Ocioso
    /\ \E ordem \in Ordens(vertices) :
          LET v0 == PrimeiroDe(ordem)
          IN /\ resultado' = [op |-> "_eh_fortemente_conexo",
                              val |-> EhFortementeConexoDe(grafo, vertices, v0)]
             /\ grafo' = GrafoAposConexo(grafo, vertices, v0)
    /\ UNCHANGED <<vertices, chamadas, descartadas, busca>>

\* The loop over self.vertices and next(iter(self.vertices)) read the same,
\* unmodified set: they see the same order.
GrafoEuleriano ==
    /\ Ocioso
    /\ \E ordem \in Ordens(vertices) :
          LET v0 == PrimeiroDe(ordem)
          IN /\ resultado' = [op |-> "grafo_euleriano",
                              val |-> GrafoEulerianoDe(grafo, vertices, ordem, v0)]
             /\ grafo' = GrafoAposConexo(
                             GrafoAposItens(grafo, EmOrdem(vertices \cap DOMAIN grafo)),
                             vertices, v0)
    /\ UNCHANGED <<vertices, chamadas, descartadas, busca>>

----------------------------------------------------------------------------
(* heapq: the queue is kept as the sorted sequence of its entries, so that *)
(* heappop takes the smallest (dist, address) tuple, as a binary heap does *)

TuplaMenorIgual(a, b) == a[1] < b[1] \/ (a[1] = b[1] /\ a[2] <= b[2])

HeapPush(fila, x) ==
    LET n == Cardinality({i \in 1..Len(fila) : TuplaMenorIgual(fila[i], x)})
    IN SubSeq(fila, 1, n) \o <<x>> \o SubSeq(fila, n + 1, Len(fila))

HeapTopo(fila) == Head(fila)

HeapPop(fila) == Tail(fila)

----------------------------------------------------------------------------
(* vertices_ate_distancia *)

InicioAteDistancia(g, origem) ==
    [g |-> g, distancias |-> <<<<origem, 0>>>>, fila |-> <<<<0, origem>>>>]

\* Mutant: "nova_dist < distancia_max" where "<=" stands.
RelaxaAteDistanciaEstrito(distancias, vizinho, nova_dist, distancia_max) ==
    /\ nova_dist < distancia_max
    /\ \/ ~DictTem(distancias, vizinho)
       \/ nova_dist < DictValor(distancias, vizinho)

\* if nova_dist <= distancia_max and (vizinho not in distancias or ...)
RelaxaAteDistancia(distancias, vizinho, nova_dist, distancia_max) ==
    /\ nova_dist <= distancia_max
    /\ \/ ~DictTem(distancias, vizinho)
       \/ nova_dist < DictValor(distancias, vizinho)

\* The for loop over self.grafo.get(atual, {}).items(), from its i-th item on.
RECURSIVE VizinhosAteDistancia(_, _, _, _, _)
VizinhosAteDistancia(est, dist, itens, i, distancia_max) ==
    IF i > Len(itens) THEN est
    ELSE LET vizinho == itens[i][1]
             nova_dist == dist + itens[i][2]
         IN VizinhosAteDistancia(
                IF RelaxaAteDistancia(est.distancias, vizinho, nova_dist, distancia_max)
                THEN [est EXCEPT !.distancias = DictPor(@, vizinho, nova_dist),
                                 !.fila = HeapPush(@, <<nova_dist, vizinho>>)]
                ELSE est,
                dist, itens, i + 1, distancia_max)

\* One iteration of the while loop: the pop, the stale test, the for loop.
PassoAteDistancia(est, distancia_max) ==
    LET dist == HeapTopo(est.fila)[1]
        atual == HeapTopo(est.fila)[2]
        est1 == [est EXCEPT !.fila = HeapPop(@)]
    IN IF dist > DictValor(est.distancias, atual)
       THEN est1
       ELSE VizinhosAteDistancia([est1 EXCEPT !.g = GrafoAposGet(@, atual)],
                                 dist, Vizinhos(est.g, atual), 1, distancia_max)

RECURSIVE LacoAteDistancia(_, _)
LacoAteDistancia(est, distancia_max) ==
    IF est.fila = <<>> THEN est
    ELSE LacoAteDistancia(PassoAteDistancia(est, distancia_max), distancia_max)

\* return [v for v in distancias if v != origem and distancias[v] <= distancia_max]
RetornoAteDistancia(est, origem, distancia_max) ==
    SelectSeq(DictChaves(est.distancias),
              LAMBDA v : v # origem /\ DictValor(est.distancias, v) <= distancia_max)

VerticesAteDistanciaDe(g, origem, distancia_max) ==
    LET fim == LacoAteDistancia(InicioAteDistancia(g, origem), distancia_max)
    IN [g |-> fim.g, val |-> RetornoAteDistancia(fim, origem, distancia_max)]

VerticesAteDistancia(origem, distancia_max) ==
    /\ Ocioso
    /\ LET r == VerticesAteDistanciaDe(grafo, origem, distancia_max)
       IN /\ resultado' = [op |-> "vertices_ate_distancia", origem |-> origem,
                           distancia_max |-> distancia_max, val |-> r.val]
          /\ grafo' = r.g
    /\ UNCHANGED <<vertices, chamadas, descartadas, busca>>

----------------------------------------------------------------------------
(* _dijkstra_com_caminhos, calcular_diametro *)

InicioDijkstra(g, origem) ==
    [g |-> g, distancias |-> <<<<origem, 0>>>>,
     caminhos |-> <<<<origem, <<origem>>>>>>, fila |-> <<<<0, origem>>>>]

\* Mutant: a vertex is relaxed only the first time it is seen.
RelaxaDijkstraSoNovos(distancias, vizinho, nova_dist) == ~DictTem(distancias, vizinho)

\* Mutant: "<=" where "<" stands, so an equal distance is pushed again.
RelaxaDijkstraMenorIgual(distancias, vizinho, nova_dist) ==
    \/ ~DictTem(distancias, vizinho)
    \/ nova_dist <= DictValor(distancias, vizinho)

\* if vizinho not in distancias or nova_dist < distancias[vizinho]
RelaxaDijkstra(distancias, vizinho, nova_dist) ==
    \/ ~DictTem(distancias, vizinho)
    \/ nova_dist < DictValor(distancias, vizinho)

RECURSIVE VizinhosDijkstra(_, _, _, _, _)
VizinhosDijkstra(est, dist, atual, itens, i) ==
    IF i > Len(itens) THEN est
    ELSE LET vizinho == itens[i][1]
             nova_dist == dist + itens[i][2]
         IN VizinhosDijkstra(
                IF RelaxaDijkstra(est.distancias, vizinho, nova_dist)
                THEN [est EXCEPT
                        !.distancias = DictPor(@, vizinho, nova_dist),
                        !.caminhos = DictPor(@, vizinho,
                                         Append(DictValor(est.caminhos, atual), vizinho)),
                        !.fila = HeapPush(@, <<nova_dist, vizinho>>)]
                ELSE est,
                dist, atual, itens, i + 1)

\* One iteration of the while loop: the pop and the for loop (no stale test).
PassoDijkstra(est) ==
    LET dist == HeapTopo(est.fila)[1]
        atual == HeapTopo(est.fila)[2]
    IN VizinhosDijkstra([est EXCEPT !.fila = HeapPop(@), !.g = GrafoAposGet(@, atual)],
                        dist, atual, Vizinhos(est.g, atual), 1)

RECURSIVE LacoDijkstra(_)
LacoDijkstra(est) ==
    IF est.fila = <<>> THEN est ELSE LacoDijkstra(PassoDijkstra(est))

DijkstraComCaminhosDe(g, origem) ==
    LET fim == LacoDijkstra(InicioDijkstra(g, origem))
    IN [g |-> fim.g, distancias |-> fim.distancias, caminhos |-> fim.caminhos]

DijkstraComCaminhos(origem) ==
    /\ Ocioso
    /\ LET r == DijkstraComCaminhosDe(grafo, origem)
       IN /\ resultado' = [op |-> "_dijkstra_com_caminhos", origem |-> origem,
                           distancias |-> r.distancias, caminhos |-> r.caminhos]
          /\ grafo' = r.g
    /\ UNCHANGED <<vertices, chamadas, descartadas, busca>>

\* The loop over destino in distancias, from its i-th key on.
RECURSIVE DestinosDiametro(_, _, _, _)
DestinosDiametro(acc, distancias, caminhos, i) ==
    IF i > Len(distancias) THEN acc
    ELSE DestinosDiametro(
             IF distancias[i][2] > acc.maior_caminho
             THEN [acc EXCEPT !.maior_caminho = distancias[i][2],
                              !.caminho_mais_longo = DictValor(caminhos, distancias[i][1])]
             ELSE acc,
             distancias, caminhos, i + 1)

\* Mutant: maior_caminho and caminho_mais_longo start anew for each origem.
RECURSIVE OrigensDiametroReinicia(_, _)
OrigensDiametroReinicia(acc, ordem) ==
    IF ordem = <<>> THEN acc
    ELSE LET r == DijkstraComCaminhosDe(acc.g, Head(ordem))
         IN OrigensDiametroReinicia(
                DestinosDiametro([g |-> r.g, maior_caminho |-> 0, caminho_mais_longo |-> <<>>],
                                 r.distancias, r.caminhos, 1),
                Tail(ordem))

\* The loop over origem in self.vertices, visited in the order `ordem`.
RECURSIVE OrigensDiametro(_, _)
OrigensDiametro(acc, ordem) ==
    IF ordem = <<>> THEN acc
    ELSE LET r == DijkstraComCaminhosDe(acc.g, Head(ordem))
         IN OrigensDiametro(
                DestinosDiametro([acc EXCEPT !.g = r.g], r.distancias, r.caminhos, 1),
                Tail(ordem))

\* Mutant: the return sits inside the loop, after the first origem.
CalcularDiametroSoPrimeira(g, ordem) ==
    OrigensDiametro([g |-> g, maior_caminho |-> 0, caminho_mais_longo |-> <<>>],
                    SubSeq(ordem, 1, Minimo(1, Len(ordem))))

CalcularDiametroDe(g, ordem) ==
    OrigensDiametro([g |-> g, maior_caminho |-> 0, caminho_mais_longo |-> <<>>], ordem)

CalcularDiametro ==
    /\ Ocioso
    /\ \E ordem \in Ordens(vertices) :
          LET r == CalcularDiametroDe(grafo, ordem)
          IN /\ resultado' = [op |-> "calcular_diametro", val |-> r.maior_caminho,
                              caminho |-> r.caminho_mais_longo]
             /\ grafo' = r.g
    /\ UNCHANGED <<vertices, chamadas, descartadas, busca>>

----------------------------------------------------------------------------
(* The loops of the two searches, one iteration at a time *)

IniciarAteDistancia(origem, distancia_max) ==
    /\ Ocioso
    /\ LET est == InicioAteDistancia(grafo, origem)
       IN busca' = [tipo |-> "vertices_ate_distancia", origem |-> origem,
                    distancia_max |-> distancia_max,
                    distancias |-> est.distancias, fila |-> est.fila]
    /\ UNCHANGED <<grafo, vertices, chamadas, descartadas, resultado>>

IterarAteDistancia ==
    /\ busca.tipo = "vertices_ate_distancia"
    /\ busca.fila # <<>>
    /\ LET est == PassoAteDistancia(
                      [g |-> grafo, distancias |-> busca.distancias, fila |-> busca.fila],
                      busca.distancia_max)
       IN /\ busca' = [busca EXCEPT !.distancias = est.distancias, !.fila = est.fila]
          /\ grafo' = est.g
    /\ UNCHANGED <<vertices, chamadas, descartadas, resultado>>

RetornarAteDistancia ==
    /\ busca.tipo = "vertices_ate_distancia"
    /\ busca.fila = <<>>
    /\ resultado' = [op |-> "vertices_ate_distancia", origem |-> busca.origem,
                     distancia_max |-> busca.distancia_max,
                     val |-> RetornoAteDistancia(busca, busca.origem, busca.distancia_max)]
    /\ busca' = [tipo |-> "ociosa"]
    /\ UNCHANGED <<grafo, vertices, chamadas, descartadas>>

IniciarDijkstra(origem) ==
    /\ Ocioso
    /\ LET est == InicioDijkstra(grafo, origem)
       IN busca' = [tipo |-> "_dijkstra_com_caminhos", origem |-> origem,
                    distancias |-> est.distancias, caminhos |-> est.caminhos,
                    fila |-> est.fila]
    /\ UNCHANGED <<grafo, vertices, chamadas, descartadas, resultado>>

IterarDijkstra ==
    /\ busca.tipo = "_dijkstra_com_caminhos"
    /\ busca.fila # <<>>
    /\ LET est == PassoDijkstra(
                      [g |-> grafo, distancias |-> busca.distancias,
                       caminhos |-> busca.caminhos, fila |-> busca.fila])
       IN /\ busca' = [busca EXCEPT !.distancias = est.distancias,
                                    !.caminhos = est.caminhos, !.fila = est.fila]
          /\ grafo' = est.g
    /\ UNCHANGED <<vertices, chamadas, descartadas, resultado>>

RetornarDijkstra ==
    /\ busca.tipo = "_dijkstra_com_caminhos"
    /\ busca.fila = <<>>
    /\ resultado' = [op |-> "_dijkstra_com_caminhos", origem |-> busca.origem,
                     distancias |-> busca.distancias, caminhos |-> busca.caminhos]
    /\ busca' = [tipo |-> "ociosa"]
    /\ UNCHANGED <<grafo, vertices, chamadas, descartadas>>

----------------------------------------------------------------------------
(* Specifications.  The store is built by _adicionar_aresta calls and      *)
(* queried by the analyses; a call runs to its return before the next one. *)

InicioDe(n) ==
    /\ grafo = <<>>
    /\ vertices = {}
    /\ chamadas = [p \in {q \in (1..n) \X (1..n) : q[1] # q[2]} |-> 0]
    /\ descartadas = 0
    /\ resultado = [op |-> "nenhuma"]
    /\ busca = [tipo |-> "ociosa"]

\* The store and the counts and degrees read from it.
Init == InicioDe(NumEnderecos)

Next ==
    \/ \E de, para \in 1..NumEnderecos : AdicionarAresta(de, para, MaxChamadas)
    \/ NumeroDeVertices
    \/ NumeroDeArestas
    \/ VerticesIsolados
    \/ Top20GrauSaida
    \/ Top20GrauEntrada
    \/ Imprimir

Spec == Init /\ [][Next]_vars

\* The Eulerian test.
InitEuleriano == InicioDe(NumEnderecosEuleriano)

NextEuleriano ==
    \/ \E de, para \in 1..NumEnderecosEuleriano :
          AdicionarAresta(de, para, MaxChamadasEuleriano)
    \/ EhFortementeConexo
    \/ GrafoEuleriano
    \/ Imprimir

SpecEuleriano == InitEuleriano /\ [][NextEuleriano]_vars

\* The searches and the diameter.  Address 0 occurs in no e-mail: an origin
\* a query may still ask about.
InitBusca == InicioDe(NumEnderecosBusca)

NextBusca ==
    \/ \E de, para \in 1..NumEnderecosBusca :
          AdicionarAresta(de, para, MaxChamadasBusca)
    \/ \E origem \in 0..NumEnderecosBusca, distancia_max \in Distancias :
          VerticesAteDistancia(origem, distancia_max)
    \/ \E origem \in 0..NumEnderecosBusca : DijkstraComCaminhos(origem)
    \/ CalcularDiametro
    \/ Imprimir

SpecBusca == InitBusca /\ [][NextBusca]_vars

\* Every analysis.
NextAnalises ==
    \/ \E de, para \in 1..NumEnderecosBusca :
          AdicionarAresta(de, para, MaxChamadasBusca)
    \/ NumeroDeVertices
    \/ NumeroDeArestas
    \/ VerticesIsolados
    \/ Top20GrauSaida
    \/ Top20GrauEntrada
    \/ EhFortementeConexo
    \/ GrafoEuleriano
    \/ \E origem \in 0..NumEnderecosBusca, distancia_max \in Distancias :
          VerticesAteDistancia(origem, distancia_max)
    \/ \E origem \in 0..NumEnderecosBusca : DijkstraComCaminhos(origem)
    \/ CalcularDiametro
    \/ Imprimir

SpecAnalises == InitBusca /\ [][NextAnalises]_vars

\* The searches with their loops run one iteration at a time.  The program
\* is single-threaded and a loop runs until its queue is empty, so an enabled
\* iteration or return is eventually taken.
NextPassos ==
    \/ \E de, para \in 1..NumEnderecosBusca :
          AdicionarAresta(de, para, MaxChamadasBusca)
    \/ \E origem \in 0..NumEnderecosBusca, distancia_max \in Distancias :
          IniciarAteDistancia(origem, distancia_max)
    \/ IterarAteDistancia
    \/ RetornarAteDistancia
    \/ \E origem \in 0..NumEnderecosBusca : IniciarDijkstra(origem)
    \/ IterarDijkstra
    \/ RetornarDijkstra
    \/ Imprimir

SpecPassos ==
    /\ InitBusca
    /\ [][NextPassos]_vars
    /\ WF_vars(IterarAteDistancia)
    /\ WF_vars(RetornarAteDistancia)
    /\ WF_vars(IterarDijkstra)
    /\ WF_vars(RetornarDijkstra)

----------------------------------------------------------------------------
(* What the claims speak of, defined on the stored weights alone *)

\* The weight of edge (a, b); 0 when the store holds no such edge.
Peso(g, a, b) == IF a \in DOMAIN g /\ DictTem(g[a], b) THEN DictValor(g[a], b) ELSE 0

\* How many entries the store holds for the ordered pair (a, b).
Entradas(g, a, b) ==
    IF a \in DOMAIN g THEN Cardinality({i \in 1..Len(g[a]) : g[a][i][1] = b}) ELSE 0

Extremos(g) == {a \in DOMAIN g : Len(g[a]) > 0} \cup Destinos(g)

\* Shortest-path distances, by Bellman-Ford's recurrence on sets of
\* <<vertex, length>> pairs: R holds, for each vertex reached from the source
\* by a walk of at most some number of edges, the length of a shortest such walk.
Menores(R) == {x \in R : \A y \in R : y[1] = x[1] => x[2] <= y[2]}

MaisUmaAresta(g, R) ==
    Menores(R \cup UNION {{<<g[x[1]][i][1], x[2] + g[x[1]][i][2]>> :
                              i \in 1..(IF x[1] \in DOMAIN g THEN Len(g[x[1]]) ELSE 0)} :
                          x \in R})

RECURSIVE AteArestas(_, _, _)
AteArestas(g, R, n) == IF n = 0 THEN R ELSE AteArestas(g, MaisUmaAresta(g, R), n - 1)

\* The <<v, d>> with v reachable from u and d the length of a shortest path
\* from u to v (a shortest path repeats no vertex).
DistanciasDe(g, u) == AteArestas(g, {<<u, 0>>}, Cardinality(Extremos(g)))

Alcanca(g, u, v) == \E x \in DistanciasDe(g, u) : x[1] = v

DistanciaReal(g, u, v) == (CHOOSE x \in DistanciasDe(g, u) : x[1] = v)[2]

\* The <<u, v, d>> with v reachable from u at distance d, for u in vs.
TodasDistancias(g, vs) == UNION {{<<u, x[1], x[2]>> : x \in DistanciasDe(g, u)} : u \in vs}

SaidaReal(g, v) == SomaConj({<<Peso(g, v, b), b>> : b \in Extremos(g)})

EntradaReal(g, v) == SomaConj({<<Peso(g, a, v), a>> : a \in Extremos(g)})

Balanceado(g, vs) == \A v \in vs : EntradaReal(g, v) = SaidaReal(g, v)

FortementeConexo(g, vs) == \A u \in vs : {x[1] : x \in DistanciasDe(g, u)} = vs

Conjunto(s) == {s[i] : i \in 1..Len(s)}

\* p is a path of g from u to v.
EhCaminho(g, p, u, v) ==
    /\ Len(p) >= 1
    /\ p[1] = u
    /\ p[Len(p)] = v
    /\ \A i \in 1..(Len(p) - 1) : Peso(g, p[i], p[i + 1]) > 0

PesoDoCaminho(g, p) == SomaSeq([i \in 1..(Len(p) - 1) |-> Peso(g, p[i], p[i + 1])])

Pares == DOMAIN chamadas

Todos == {p[1] : p \in Pares}

----------------------------------------------------------------------------
(* Claims on the store (Spec) *)

ArmazenamentoExato ==
    /\ \A p \in Pares :
          /\ Entradas(grafo, p[1], p[2]) = (IF chamadas[p] = 0 THEN 0 ELSE 1)
          /\ Peso(grafo, p[1], p[2]) = chamadas[p]
    /\ \A v \in Todos : Entradas(grafo, v, v) = 0
    /\ NumeroDeArestasDe(grafo) = Cardinality({p \in Pares : chamadas[p] > 0})

\* C1: after any sequence of _adicionar_aresta calls the store holds, for
\* every ordered pair (a, b) with a # b, exactly one edge (a, b) whose weight
\* is the number of calls made with (a, b), and none when no call was made; no
\* edge (v, v) exists; and a call with de = para leaves self.vertices and
\* self.grafo (its keys, its entries, every weight) as they were.
C1_PesoContaChamadas ==
    /\ ArmazenamentoExato
    /\ [][/\ ArmazenamentoExato'
          /\ descartadas' # descartadas => (grafo' = grafo /\ vertices' = vertices)]_vars

C1_Testemunha ==
    /\ descartadas > 0
    /\ \E p \in Pares : chamadas[p] >= 2 /\ Peso(grafo, p[1], p[2]) = chamadas[p]
    /\ \E p \in Pares : chamadas[p] = 0 /\ Entradas(grafo, p[1], p[2]) = 0

\* C2: in every reachable state the weighted out-degrees (the graus of
\* top_20_grau_saida) and the weighted in-degrees (the graus of
\* top_20_grau_entrada) have the same sum, the number of calls made with
\* de # para; with no more than TopK addresses the returned lists do too.
C2_SomaDosGraus ==
    /\ SomaConj(GrausSaida(grafo)) = TotalChamadas
    /\ SomaConj(GrausEntrada(grafo)) = TotalChamadas
    /\ resultado.op \in {"top_20_grau_saida", "top_20_grau_entrada"}
          => SomaSeq([i \in 1..Len(resultado.val) |-> resultado.val[i][1]]) = TotalChamadas

C2_Testemunha ==
    /\ resultado.op = "top_20_grau_entrada"
    /\ Len(resultado.val) >= 2
    /\ TotalChamadas >= 3
    /\ \E p \in Pares : chamadas[p] >= 2

\* C10: in every reachable state self.vertices, the keys of self.grafo and the
\* endpoints of the edges are the same set, and vertices_isolados returns 0.
C10_SemIsolados ==
    /\ vertices = DOMAIN grafo
    /\ vertices = Extremos(grafo)
    /\ VerticesIsoladosDe(grafo, vertices) = 0
    /\ resultado.op = "vertices_isolados" => resultado.val = 0

C10_Testemunha ==
    /\ resultado.op = "vertices_isolados"
    /\ resultado.val = 0
    /\ \E v \in vertices : Len(grafo[v]) = 0

----------------------------------------------------------------------------
(* Claim on the Eulerian test (SpecEuleriano) *)

\* C3: grafo_euleriano returns (True, []) exactly when every vertex has equal
\* weighted in- and out-degree and every vertex reaches every other one (the
\* empty graph included); otherwise it returns False and at least one reason.
C3_EulerianoSse ==
    resultado.op = "grafo_euleriano" =>
        LET euleriano == Balanceado(grafo, vertices) /\ FortementeConexo(grafo, vertices)
        IN /\ resultado.val.euleriano = euleriano
           /\ euleriano => resultado.val.motivos = <<>>
           /\ ~euleriano => Len(resultado.val.motivos) > 0

\* Two disjoint cycles: balanced at every vertex, not strongly connected.
C3_Testemunha ==
    /\ resultado.op = "grafo_euleriano"
    /\ Balanceado(grafo, vertices)
    /\ ~FortementeConexo(grafo, vertices)
    /\ ~resultado.val.euleriano
    /\ Len(resultado.val.motivos) = 1

----------------------------------------------------------------------------
(* Claims on the searches and the diameter (SpecBusca) *)

\* C4: vertices_ate_distancia(origem, distancia_max) returns, each once,
\* exactly the vertices other than origem whose shortest-path distance from
\* origem is at most distancia_max, for an origem in the graph or not and for
\* any bound, negative ones included.
C4_AteDistanciaExato ==
    resultado.op = "vertices_ate_distancia" =>
        LET D == DistanciasDe(grafo, resultado.origem)
        IN /\ Conjunto(resultado.val) =
                 {x[1] : x \in {y \in D : /\ y[1] # resultado.origem
                                          /\ y[2] <= resultado.distancia_max}}
           /\ Cardinality(Conjunto(resultado.val)) = Len(resultado.val)

\* One vertex is within the bound and another, reachable, lies beyond it.
C4_Testemunha ==
    /\ resultado.op = "vertices_ate_distancia"
    /\ Len(resultado.val) >= 1
    /\ \E x \in DistanciasDe(grafo, resultado.origem) :
          /\ x[2] > resultado.distancia_max
          /\ x[1] \notin Conjunto(resultado.val)

MaiorDistancia(g, vs) ==
    LET ds == {t[3] : t \in TodasDistancias(g, vs)} \cup {0}
    IN CHOOSE d \in ds : \A e \in ds : e <= d

\* C5: the distance calcular_diametro returns is the largest shortest-path
\* distance over the ordered pairs (u, v) with v reachable from u; with no
\* edge it returns 0 and the empty path.
C5_DiametroMaximo ==
    resultado.op = "calcular_diametro" =>
        /\ resultado.val = MaiorDistancia(grafo, vertices)
        /\ vertices = {} => resultado.val = 0 /\ resultado.caminho = <<>>

\* The diameter is a path of two edges and some pair is unreachable.
C5_Testemunha ==
    /\ resultado.op = "calcular_diametro"
    /\ resultado.val >= 2
    /\ Len(resultado.caminho) = 3
    /\ \E u, v \in vertices : ~Alcanca(grafo, u, v)

ArestasDe(g) == {p \in Extremos(g) \X Extremos(g) : Peso(g, p[1], p[2]) > 0}

\* C6 as stated: the diameter is at least the largest weight of an edge and
\* at least every shortest-path distance between a reachable pair.
C6_Original ==
    resultado.op = "calcular_diametro" =>
        /\ \A p \in ArestasDe(grafo) : resultado.val >= Peso(grafo, p[1], p[2])
        /\ \A t \in TodasDistancias(grafo, vertices) : resultado.val >= t[3]

\* C6 amended: the diameter is at least every shortest-path distance between
\* a reachable pair, and at least the weight of every edge that is itself a
\* shortest path between its endpoints.
C6_DiametroLimiteInferior ==
    resultado.op = "calcular_diametro" =>
        LET T == TodasDistancias(grafo, vertices)
        IN /\ \A p \in ArestasDe(grafo) :
                 <<p[1], p[2], Peso(grafo, p[1], p[2])>> \in T
                    => resultado.val >= Peso(grafo, p[1], p[2])
           /\ \A t \in T : resultado.val >= t[3]

\* An edge heavier than the diameter: a lighter path joins its endpoints.
C6_Testemunha ==
    /\ resultado.op = "calcular_diametro"
    /\ \E p \in ArestasDe(grafo) : Peso(grafo, p[1], p[2]) > resultado.val
    /\ resultado.val = MaiorDistancia(grafo, vertices)

\* C7: _dijkstra_com_caminhos(origem) records exactly the vertices reachable
\* from origem, each with its shortest-path distance and with a path from
\* origem to it along edges of the graph whose weights add up to that
\* distance; an origem that is not in the graph yields origem alone, at
\* distance 0 with the path [origem].
C7_DijkstraExato ==
    resultado.op = "_dijkstra_com_caminhos" =>
        LET o == resultado.origem
            ds == resultado.distancias
            cs == resultado.caminhos
        IN /\ {<<ds[i][1], ds[i][2]>> : i \in 1..Len(ds)} = DistanciasDe(grafo, o)
           /\ Cardinality(Conjunto(DictChaves(ds))) = Len(ds)
           /\ DictChaves(cs) = DictChaves(ds)
           /\ \A v \in Conjunto(DictChaves(ds)) :
                 /\ EhCaminho(grafo, DictValor(cs, v), o, v)
                 /\ PesoDoCaminho(grafo, DictValor(cs, v)) = DictValor(ds, v)
           /\ o \notin vertices => ds = <<<<o, 0>>>> /\ cs = <<<<o, <<o>>>>>>

\* A vertex recorded through two edges although a heavier edge joins origem
\* to it: the entry pushed for that edge went stale in the queue.
C7_Testemunha ==
    /\ resultado.op = "_dijkstra_com_caminhos"
    /\ \E v \in Conjunto(DictChaves(resultado.distancias)) :
          /\ Len(DictValor(resultado.caminhos, v)) = 3
          /\ Peso(grafo, resultado.origem, v) > DictValor(resultado.distancias, v)

----------------------------------------------------------------------------
(* Claim on every analysis (SpecAnalises) *)

Analises ==
    {"numero_de_vertices", "numero_de_arestas", "vertices_isolados",
     "top_20_grau_saida", "top_20_grau_entrada", "_eh_fortemente_conexo",
     "grafo_euleriano", "vertices_ate_distancia", "_dijkstra_com_caminhos",
     "calcular_diametro"}

\* C8: a call of any analysis leaves self.vertices and self.grafo (its keys,
\* its entries, every weight) as they were, also when the origin asked about
\* is not in the graph.
C8_AnalisesNaoAlteram ==
    [][resultado'.op \in Analises => (grafo' = grafo /\ vertices' = vertices)]_vars

\* A bounded search has returned for an origin that is not in the graph, and
\* the origin has not become a key of self.grafo.
C8_Testemunha ==
    /\ resultado.op = "vertices_ate_distancia"
    /\ vertices # {}
    /\ resultado.origem \notin vertices
    /\ resultado.origem \notin DOMAIN grafo

----------------------------------------------------------------------------
(* Claim on the loops of the searches (SpecPassos) *)

\* The entries of the queue after an iteration that were not in it before.
Empilhados == Conjunto(busca'.fila) \ Conjunto(busca.fila)

\* An iteration pops one entry, and each entry it pushes records, for its
\* vertex, a distance lower than the one recorded before (or a first one).
CadaPushReduz ==
    (busca.tipo # "ociosa" /\ busca'.tipo = busca.tipo) =>
        /\ Len(busca'.fila) = Len(busca.fila) - 1 + Cardinality(Empilhados)
        /\ \A e \in Empilhados :
              /\ DictValor(busca'.distancias, e[2]) = e[1]
              /\ \/ ~DictTem(busca.distancias, e[2])
                 \/ e[1] < DictValor(busca.distancias, e[2])
        /\ \A v \in Conjunto(DictChaves(busca.distancias)) :
              /\ DictTem(busca'.distancias, v)
              /\ DictValor(busca'.distancias, v) <= DictValor(busca.distancias, v)

\* C9: the loop of vertices_ate_distancia and the loop of
\* _dijkstra_com_caminhos, started on any reachable graph from any origin,
\* empty the queue and return; every push lowers the distance recorded for a
\* vertex, also in the loop that does not skip stale entries.
C9_BuscasTerminam ==
    /\ [][CadaPushReduz]_vars
    /\ (busca.tipo # "ociosa") ~> (busca.tipo = "ociosa")

\* The loop without the stale test holds an entry that has gone stale.
C9_Testemunha ==
    /\ busca.tipo = "_dijkstra_com_caminhos"
    /\ \E i \in 1..Len(busca.fila) :
          busca.fila[i][1] > DictValor(busca.distancias, busca.fila[i][2])

====
